---- MODULE Spec2Model ----
(***************************************************************************)
(* Model of the OpenClaw agent: the Agent (src/src/agent/core.py), the     *)
(* ModelRouter (src/src/models/router.py) and the request shape of the two *)
(* adapters.  A Python str is modelled as a sequence of tokens: a token is *)
(* either a whitespace character (" " or "\t") or a maximal run of         *)
(* non-whitespace characters (a word, taken from a small vocabulary).      *)
(* Every message of the model has its words separated by whitespace, so    *)
(* str.split() is the subsequence of the word tokens.                      *)
(***************************************************************************)
EXTENDS Integers, Sequences, FiniteSets, TLC

\* ------------------------------------------------------------------ bounds
MaxHistory == 2
MaxCalls == 2
MaxHandlers == 2
MaxWords == 3

\* ------------------------------------------------------- strings (Python str)
IsSpace(tok) == tok \in {" ", "\t"}

\* str.lower() on one token of the vocabulary.
LowerTok(tok) ==
    CASE tok = "/Clear" -> "/clear"
      [] tok = "/STATUS" -> "/status"
      [] tok = "/Model" -> "/model"
      [] tok = "Gemini" -> "gemini"
      [] tok = "Why" -> "why"
      [] tok = "Analyze" -> "analyze"
      [] OTHER -> tok

Lower(s) == [i \in 1..Len(s) |-> LowerTok(s[i])]

RECURSIVE LStrip(_)
LStrip(s) == IF s # <<>> /\ IsSpace(Head(s)) THEN LStrip(Tail(s)) ELSE s

RECURSIVE RStrip(_)
RStrip(s) ==
    IF s # <<>> /\ IsSpace(s[Len(s)]) THEN RStrip(SubSeq(s, 1, Len(s) - 1)) ELSE s

\* str.strip()
Strip(s) == RStrip(LStrip(s))

\* str.split() with no argument: the whitespace-delimited words.
Split(s) == SelectSeq(s, LAMBDA tok : ~IsSpace(tok))

\* " ".join(parts)
RECURSIVE Join(_)
Join(parts) ==
    IF Len(parts) <= 1 THEN parts
    ELSE <<Head(parts), " ">> \o Join(Tail(parts))

\* s.startswith("/model ")
StartsWithModel(s) == Len(s) >= 2 /\ s[1] = "/model" /\ s[2] = " "

\* Python's seq[-n:] for any integer n (n = 0 gives the whole sequence).
PySuffix(s, n) ==
    IF n > 0 THEN SubSeq(s, (IF Len(s) > n THEN Len(s) - n + 1 ELSE 1), Len(s))
    ELSE SubSeq(s, (IF -n < Len(s) THEN -n + 1 ELSE Len(s) + 1), Len(s))

\* Python's seq[:-1]
AllButLast(s) == IF s = <<>> THEN <<>> ELSE SubSeq(s, 1, Len(s) - 1)

\* ------------------------------------------------ settings (config/settings.py)
\* Settings.gemini_keywords_list for the default gemini_trigger_keywords: the
\* pipe-separated keywords, stripped and lower-cased.
trigger_keywords ==
    << <<"analyze">>, <<"generate", " ", "code">>, <<"complex">>,
       <<"explain", " ", "in", " ", "detail">>, <<"research">> >>

ollama_model == "llama3.2"
gemini_model == "gemini-1.5-pro"

\* the token standing for the three-backquote code fence
CodeFence == "<fence>"

\* --------------------------------------------- substring tables of the vocabulary
\* w occurs in the token as a substring (Python's w in tok).
Contains(tok, w) == tok = w \/ <<tok, w>> \in {<<"complexity", "complex">>}
\* the token ends / starts with w
EndsWith(tok, w) == tok = w
StartsWith(tok, w) == tok = w \/ <<tok, w>> \in {<<"complexity", "complex">>}
\* w occurs in the token between regex word boundaries (\bw\b)
WholeWord(tok, w) ==
    tok = w \/ <<tok, w>> \in {<<"explain?", "explain">>, <<"why?", "why">>}
\* the token holds a "?", and a "?" after the whole word w
HasQuestionMark(tok) == tok \in {"explain?", "why?", "?"}
QuestionMarkAfter(tok, w) == <<tok, w>> \in {<<"why?", "why">>}

\* kw in s, for a keyword kw given as tokens (its words joined by single spaces)
KeywordIn(kw, s) ==
    \E i \in 1..(Len(s) - Len(kw) + 1) :
        \A j \in 1..Len(kw) :
            LET tok == s[i + j - 1] IN
            IF Len(kw) = 1 THEN Contains(tok, kw[j])
            ELSE IF j = 1 THEN EndsWith(tok, kw[j])
            ELSE IF j = Len(kw) THEN StartsWith(tok, kw[j])
            ELSE tok = kw[j]

\* re.search(r'\ba\b.*\bb\b', s): a whole word a, then later a whole word b
\* (no token of the vocabulary holds both, and none holds a newline)
PatternThen(s, a, b) ==
    \E i \in 1..Len(s) : \E j \in (i + 1)..Len(s) :
        WholeWord(s[i], a) /\ WholeWord(s[j], b)

\* re.search(r'\bwhy\b.*\?', s)
PatternWhy(s) ==
    \E i \in 1..Len(s) :
        /\ WholeWord(s[i], "why")
        /\ \/ QuestionMarkAfter(s[i], "why")
           \/ \E j \in (i + 1)..Len(s) : HasQuestionMark(s[j])

\* re.search(r'\bw\b', s)
PatternWord(s, w) == \E i \in 1..Len(s) : WholeWord(s[i], w)

\* the five complex_patterns, each as whether it matches message_lower
complex_patterns(s) ==
    << PatternWhy(s), PatternThen(s, "how", "work"), PatternWord(s, "explain"),
       PatternWord(s, "compare"), PatternThen(s, "difference", "between") >>

\* a code fence (three backquotes), "def " or "function" occurs in message
Technical(message) ==
    \/ \E i \in 1..Len(message) : Contains(message[i], CodeFence)
    \/ \E i \in 1..(Len(message) - 1) :
           EndsWith(message[i], "def") /\ message[i + 1] = " "
    \/ \E i \in 1..Len(message) : Contains(message[i], "function")

RECURSIVE SumSeq(_)
SumSeq(ns) == IF ns = <<>> THEN 0 ELSE Head(ns) + SumSeq(Tail(ns))

\* the loop over trigger_keywords: 200 per keyword found in message_lower
KeywordScore(message_lower) ==
    SumSeq([k \in 1..Len(trigger_keywords) |->
               IF KeywordIn(trigger_keywords[k], message_lower) THEN 200 ELSE 0])

\* the loop over complex_patterns: 100 per pattern that matches
PatternScore(message_lower) ==
    SumSeq([k \in 1..5 |-> IF complex_patterns(message_lower)[k] THEN 100 ELSE 0])

ContextScoreDeducted(context) ==
    IF context = <<>> THEN 0
    ELSE 0 - (SumSeq([k \in 1..Len(context) |-> Len(Split(context[k].content))]) \div 10)

\* sum(len(msg.get("content", "").split()) for msg in context) // 10;
\* (if context:) skips the empty (or absent) context
ContextScore(context) ==
    IF context = <<>> THEN 0
    ELSE SumSeq([k \in 1..Len(context) |-> Len(Split(context[k].content))]) \div 10

\* ModelRouter._calculate_complexity
calculate_complexity(message, context) ==
    Len(Split(message))
    + KeywordScore(Lower(message))
    + (IF Technical(message) THEN 150 ELSE 0)
    + PatternScore(Lower(message))
    + ContextScore(context)

\* ------------------------------------------------------------------ inputs
Users == {"u1", "u2"}
\* request threads of the HTTP server; Spec runs the calls one after another
Threads == {"t1", "t2"}
SeqThreads == {"t1"}

\* "hi"
MsgHi == <<"hi">>
\* " /Clear\t"
MsgClear == <<" ", "/Clear", "\t">>
\* "/STATUS "
MsgStatus == <<"/STATUS", " ">>
\* "/model Gemini"
MsgModelOnly == <<"/model", " ", "Gemini">>
\* "/model gpt hi"
MsgModelBad == <<"/model", " ", "gpt", " ", "hi">>
\* " /Model Gemini\thi  Why?"
MsgModelGemini == <<" ", "/Model", " ", "Gemini", "\t", "hi", " ", " ", "why?">>
\* "/model ollama def Analyze complexity"
MsgModelOllama ==
    <<"/model", " ", "ollama", " ", "def", " ", "Analyze", " ", "complexity">>
\* "/model\tgemini hi": a tab after /model, so not a command
MsgModelTab == <<"/model", "\t", "gemini", " ", "hi">>

Messages ==
    { MsgHi, MsgClear, MsgStatus, MsgModelOnly, MsgModelBad,
      MsgModelGemini, MsgModelOllama, MsgModelTab }

\* the requests received, as (user_id, message): the first user sends every
\* message, the second one a plain message or /clear
Requests == ({"u1"} \X Messages) \cup ({"u2"} \X {MsgHi, MsgClear})

\* the texts the providers answer with: the local model a short one, the cloud
\* model one of ten words
ReplyOk == <<"ok">>
ReplyLong ==
    <<"a", " ", "b", " ", "c", " ", "d", " ", "e", " ", "f", " ", "g", " ",
      "h", " ", "i", " ", "j">>
Replies(backend) == IF backend = "gemini" THEN {ReplyLong} ELSE {ReplyOk}

\* the requests received while handlers are registered: one user's, a plain
\* message, a forced model and every command
HookRequests ==
    {"u1"} \X {MsgHi, MsgModelGemini, MsgClear, MsgStatus, MsgModelOnly, MsgModelBad}

\* the callables on_message may be given
Hooks == {"h1", "h2"}

\* values of settings.complexity_threshold the model runs with
Thresholds == {2}

\* ------------------------------------------------------------------- state
VARIABLES
    max_history,          \* Agent.max_history (settings.max_history_length)
    gemini,               \* ModelRouter.gemini is an adapter (TRUE) or None (FALSE)
    complexity_threshold, \* ModelRouter.complexity_threshold
    conversations,        \* Agent.conversations: user_id -> reference of a list
    heap,                 \* the list objects: reference -> sequence of messages
    handlers,             \* Agent._message_handlers
    clock,                \* datetime.now(), counted in appends
    appended,             \* history: per user, every entry appended since the last clear
    generations,          \* history: the generating calls started so far
    th                    \* per thread: the call in progress and its local variables

vars ==
    << max_history, gemini, complexity_threshold, conversations, heap, handlers,
       clock, appended, generations, th >>

config == << max_history, gemini, complexity_threshold >>

\* the stored sequence of every user who has a conversation
Histories == [u \in DOMAIN conversations |-> heap[conversations[u]]]

NoResponse == [text |-> <<>>, model |-> "none", success |-> FALSE]

\* history: no "/model <name>" command was the thread's last call
NoModelSet == [user_id |-> "none", model |-> "none"]

Idle ==
    [ pc |-> "idle", op |-> "none", message |-> <<>>, user_id |-> "none",
      path |-> "none", actual_message |-> <<>>, force_model |-> "none",
      role |-> "none", content |-> <<>>, ret |-> "none", history |-> 0,
      context |-> <<>>, use_gemini |-> FALSE, calls |-> <<>>, error |-> "none",
      response |-> NoResponse, notified |-> <<>>, idx |-> 0,
      pre |-> <<>>, pre_appended |-> <<>>, pre_clock |-> 0, gen_pre |-> <<>>,
      pre_returned |-> <<>>, complexity |-> 0, messages |-> <<>>,
      model_set |-> NoModelSet, pre_model_set |-> "none" ]

Init ==
    /\ max_history \in 0..MaxHistory
    /\ gemini \in BOOLEAN
    /\ complexity_threshold \in Thresholds
    /\ conversations = <<>>
    /\ heap = <<>>
    /\ handlers = <<>>
    /\ clock = 0
    /\ appended = [u \in Users |-> <<>>]
    /\ generations = 0
    /\ th = [t \in Threads |-> Idle]

\* --------------------------------------------------- Agent: pure parts (core.py)
IsClearCommandExact(message) == message = <<"/clear">>

\* message.strip().lower() == "/clear", == "/status", .startswith("/model ")
IsClearCommand(message) == Lower(Strip(message)) = <<"/clear">>
IsStatusCommandExact(message) == message = <<"/status">>
IsStatusCommand(message) == Lower(Strip(message)) = <<"/status">>
IsModelCommand(message) == StartsWithModel(Lower(Strip(message)))

\* which branch of process_message a message takes (the tests are made in order)
Path(message) ==
    IF IsClearCommand(message) THEN "clear"
    ELSE IF IsStatusCommand(message) THEN "status"
    ELSE IF IsModelCommand(message) THEN "model"
    ELSE "normal"

\* the synthetic responses of the Agent
SystemResponse(text) == [text |-> text, model |-> "system", success |-> TRUE]

ClearedText == <<"Conversation", " ", "history", " ", "cleared.">>
UsageText == <<"Usage:", " ", "/model", " ", "[ollama|gemini]", " ", "<message>">>
InvalidModelText ==
    <<"Invalid", " ", "model.", " ", "Use", " ", "'ollama'", " ", "or", " ", "'gemini'.">>
ModelSetText(model) ==
    <<"Model", " ", "set", " ", "to", " ", model, ".", " ", "Now", " ", "send",
      " ", "your", " ", "message.">>
\* the /status text: the two adapters' availability and len(self.conversations)
Available(adapter) == IF adapter THEN "Available" ELSE "Not configured"
Decimal(n) ==
    CASE n = 0 -> "0" [] n = 1 -> "1" [] n = 2 -> "2" [] n = 3 -> "3"
      [] n = 4 -> "4" [] n = 202 -> "202" [] OTHER -> "n"
StatusText ==
    <<"OpenClaw", " ", "Status", "Ollama:", Available(TRUE), "Gemini:",
      Available(gemini), "Complexity", "Threshold:", Decimal(complexity_threshold),
      "Max", "History:", Decimal(max_history), "Active", "Conversations:",
      Decimal(Cardinality(DOMAIN conversations))>>

ModelCommandWholeMessage(message) ==
    LET parts == Split(Strip(message))
        model == LowerTok(parts[2])
        actual_message == IF Len(parts) > 2 THEN Join(SubSeq(parts, 3, Len(parts))) ELSE <<>>
    IN  IF Len(parts) < 2
        THEN [kind |-> "usage", model |-> "none", actual_message |-> <<>>,
              response |-> SystemResponse(UsageText)]
        ELSE IF model \notin {"ollama", "gemini"}
        THEN [kind |-> "invalid", model |-> model, actual_message |-> <<>>,
              response |-> SystemResponse(InvalidModelText)]
        ELSE IF actual_message = <<>>
        THEN [kind |-> "model_set", model |-> model, actual_message |-> <<>>,
              response |-> SystemResponse(ModelSetText(model))]
        ELSE [kind |-> "forced", model |-> model, actual_message |-> message,
              response |-> NoResponse]

ModelCommandAnyName(message) ==
    LET parts == Split(Strip(message))
        model == LowerTok(parts[2])
        actual_message == IF Len(parts) > 2 THEN Join(SubSeq(parts, 3, Len(parts))) ELSE <<>>
    IN  IF actual_message = <<>>
        THEN [kind |-> "model_set", model |-> model, actual_message |-> <<>>,
              response |-> SystemResponse(ModelSetText(model))]
        ELSE [kind |-> "forced", model |-> model, actual_message |-> actual_message,
              response |-> NoResponse]

\* _handle_model_command up to its decision: what it answers, or the forced
\* model and the message to generate for
ModelCommand(message) ==
    LET parts == Split(Strip(message))
        model == LowerTok(parts[2])
        actual_message == IF Len(parts) > 2 THEN Join(SubSeq(parts, 3, Len(parts))) ELSE <<>>
    IN  IF Len(parts) < 2
        THEN [kind |-> "usage", model |-> "none", actual_message |-> <<>>,
              response |-> SystemResponse(UsageText)]
        ELSE IF model \notin {"ollama", "gemini"}
        THEN [kind |-> "invalid", model |-> model, actual_message |-> <<>>,
              response |-> SystemResponse(InvalidModelText)]
        ELSE IF actual_message = <<>>
        THEN [kind |-> "model_set", model |-> model, actual_message |-> <<>>,
              response |-> SystemResponse(ModelSetText(model))]
        ELSE [kind |-> "forced", model |-> model, actual_message |-> actual_message,
              response |-> NoResponse]

\* the entry _add_to_history appends
Entry(role, content, timestamp) ==
    [role |-> role, content |-> content, timestamp |-> timestamp]

\* _add_to_history, its trimming: len(history) > self.max_history, and the list
\* history[-self.max_history:] that then replaces the stored one
NeedsTrim(history) == Len(history) > max_history
TrimmedOldestKept(history) == SubSeq(history, 1, max_history)
Trimmed(history) == PySuffix(history, max_history)

\* -------------------------------------------------- Router: pure parts (router.py)
should_use_gemini_strict(message, context) ==
    IF ~gemini THEN FALSE
    ELSE calculate_complexity(message, context) > complexity_threshold

\* ModelRouter._should_use_gemini
should_use_gemini(message, context) ==
    IF ~gemini THEN FALSE
    ELSE calculate_complexity(message, context) >= complexity_threshold

UseGeminiUnchecked(force_model, message, context) ==
    IF force_model = "gemini" THEN TRUE
    ELSE IF force_model = "ollama" THEN FALSE
    ELSE should_use_gemini(message, context)

\* ModelRouter.generate, "Determine which model to use"
UseGemini(force_model, message, context) ==
    IF force_model = "gemini" /\ gemini THEN TRUE
    ELSE IF force_model = "ollama" THEN FALSE
    ELSE should_use_gemini(message, context)

ModelName(use_gemini) == IF use_gemini THEN "gemini" ELSE "ollama"

\* str(e) of the exception an adapter call raised; calling .generate on the
\* absent cloud adapter (None) raises AttributeError
ErrorOf(backend) ==
    IF backend = "gemini" /\ ~gemini THEN "AttributeError" ELSE backend \o "_error"

\* the response of a first call that succeeded
SuccessResponse(text, use_gemini) ==
    [ text |-> text, model |-> ModelName(use_gemini),
      model_version |-> IF use_gemini THEN gemini_model ELSE ollama_model,
      success |-> TRUE ]

ShouldFallbackAlways(use_gemini) == TRUE

\* "Fallback to other model": if use_gemini and self.ollama (always an adapter)
ShouldFallback(use_gemini) == use_gemini /\ TRUE

FallbackResponseUnmarked(text) ==
    [ text |-> text, model |-> "gemini", model_version |-> gemini_model,
      success |-> TRUE ]

\* the response of a fallback call that succeeded
FallbackResponse(text) ==
    [ text |-> text, model |-> "ollama", model_version |-> ollama_model,
      success |-> TRUE, fallback |-> TRUE ]

ApologyText ==
    <<"I'm", " ", "sorry,", " ", "I", " ", "encountered", " ", "an", " ", "error",
      " ", "processing", " ", "your", " ", "request.">>

FailureResponseLastError(model_name, error, fallback_error) ==
    [ text |-> ApologyText, model |-> "ollama", success |-> FALSE,
      error |-> fallback_error ]

FailureResponseNoError(model_name, error, fallback_error) ==
    [ text |-> ApologyText, model |-> model_name, success |-> FALSE ]

\* the response after the failure that is not recovered: e is the first error
FailureResponse(model_name, error, fallback_error) ==
    [ text |-> ApologyText, model |-> model_name, success |-> FALSE,
      error |-> error ]

\* the system prompt of OllamaClient._format_messages
SystemPrompt ==
    <<"You", " ", "are", " ", "OpenClaw,", " ", "a", " ", "helpful", " ", "AI",
      " ", "assistant.">>
format_messages_context_last(message, context) ==
    <<[role |-> "system", content |-> SystemPrompt]>>
    \o <<[role |-> "user", content |-> message]>>
    \o (IF context # <<>> THEN context ELSE <<>>)

\* OllamaClient._format_messages
format_messages(message, context) ==
    <<[role |-> "system", content |-> SystemPrompt]>>
    \o (IF context # <<>> THEN context ELSE <<>>)
    \o <<[role |-> "user", content |-> message]>>

\* ------------------------------------------------------------ Agent: actions
\* the stored entries of a user when every _add_to_history that appended one
\* of them has returned; none when a thread is between its append and its trim
Returned(user_id) ==
    IF \E t \in Threads : th[t].pc = "add_trim" /\ th[t].user_id = user_id
    THEN <<>>
    ELSE IF user_id \in DOMAIN conversations THEN Histories[user_id] ELSE <<>>

\* a call starts: its arguments, and what the state was (pre*, for the claims)
Start(op, message, user_id, path, pc) ==
    [ Idle EXCEPT !.pc = pc, !.op = op, !.message = message, !.user_id = user_id,
                  !.path = path, !.pre = Histories,
                  !.pre_appended = appended[user_id], !.pre_clock = clock,
                  !.pre_returned = Returned(user_id) ]

AfterCommandNotify == "notify"

\* where a command goes once it is handled: process_message returns its
\* response there and then, before the "Notify handlers" loop
AfterCommand == "return"

\* process_message, "/clear": on to clear_history
ProcessClear(t, u, m) ==
    /\ th[t].pc = "idle"
    /\ Path(m) = "clear"
    /\ th' = [th EXCEPT ![t] = Start("process", m, u, "clear", "clear_history")]
    /\ UNCHANGED << config, conversations, heap, handlers, clock, appended, generations >>

\* POST /api/clear: clear_history called by the HTTP handler
ApiClear(t, u) ==
    /\ th[t].pc = "idle"
    /\ th' = [th EXCEPT ![t] = Start("clear", <<>>, u, "none", "clear_history")]
    /\ UNCHANGED << config, conversations, heap, handlers, clock, appended, generations >>

\* a reference no live list has: where a new list object is put
NewRef == CHOOSE i \in 1..(Cardinality(DOMAIN heap) + 1) : i \notin DOMAIN heap

\* the list objects still referenced, by the mapping or by a thread's local
\* variable: the others are freed (reference counting)
Live(h, convs, ths) ==
    LET refs == {convs[u] : u \in DOMAIN convs} \cup {ths[t].history : t \in Threads}
    IN  [i \in DOMAIN h \cap refs |-> h[i]]

ClearedNothing(user_id) == conversations

ClearedAll(user_id) == <<>>

\* what clear_history leaves of the mapping
Cleared(user_id) ==
    [u \in DOMAIN conversations \ {user_id} |-> conversations[u]]

\* clear_history, and the return of its caller
ClearHistory(t) ==
    LET c == th[t] IN
    /\ c.pc = "clear_history"
    /\ IF c.user_id \in DOMAIN conversations
       THEN /\ conversations' = Cleared(c.user_id)
            /\ appended' = [appended EXCEPT ![c.user_id] = <<>>]
       ELSE UNCHANGED << conversations, appended >>
    /\ th' = [th EXCEPT ![t] =
                 [c EXCEPT !.pc = AfterCommand,
                           !.response = IF c.op = "process"
                                        THEN SystemResponse(ClearedText)
                                        ELSE NoResponse]]
    /\ heap' = Live(heap, conversations', th')
    /\ UNCHANGED << config, handlers, clock, generations >>

\* process_message, "/status": _handle_status_command
ProcessStatus(t, u, m) ==
    /\ th[t].pc = "idle"
    /\ Path(m) = "status"
    /\ th' = [th EXCEPT ![t] =
                 [Start("process", m, u, "status", AfterCommand)
                     EXCEPT !.response = SystemResponse(StatusText)]]
    /\ UNCHANGED << config, conversations, heap, handlers, clock, appended, generations >>

\* process_message, "/model ...": _handle_model_command answers by itself
ProcessModelAnswer(t, u, m) ==
    /\ th[t].pc = "idle"
    /\ Path(m) = "model"
    /\ ModelCommand(m).kind # "forced"
    /\ th' = [th EXCEPT ![t] =
                 [Start("process", m, u, "model", AfterCommand)
                     EXCEPT !.response = ModelCommand(m).response]]
    /\ UNCHANGED << config, conversations, heap, handlers, clock, appended, generations >>

MessageRoleAssistant == "assistant"

\* the role _add_to_history gets for the message of the call
MessageRole == "user"

\* process_message, "/model <name> <text>": on to _add_to_history of the text
ProcessModelForced(t, u, m) ==
    /\ th[t].pc = "idle"
    /\ Path(m) = "model"
    /\ ModelCommand(m).kind = "forced"
    /\ generations < MaxCalls
    /\ generations' = generations + 1
    /\ th' = [th EXCEPT ![t] =
                 [Start("process", m, u, "model", "add_get")
                     EXCEPT !.actual_message = ModelCommand(m).actual_message,
                            !.force_model = ModelCommand(m).model,
                            !.role = MessageRole,
                            !.content = ModelCommand(m).actual_message,
                            !.ret = "context"]]
    /\ UNCHANGED << config, conversations, heap, handlers, clock, appended >>

\* history: the model the user's call just before named in "/model <name>",
\* when that call was answered "Model set to <name>"
ModelSetBefore(t, u) ==
    IF th[t].model_set.user_id = u THEN th[t].model_set.model ELSE "none"

NormalForceModelKept(model_set) == model_set

\* the force_model of the normal path: generate is called without one, and
\* the Agent keeps nothing of an earlier "/model <name>"
NormalForceModel(model_set) == "none"

\* process_message, no command: on to _add_to_history of the message
ProcessNormal(t, u, m) ==
    /\ th[t].pc = "idle"
    /\ Path(m) = "normal"
    /\ generations < MaxCalls
    /\ generations' = generations + 1
    /\ th' = [th EXCEPT ![t] =
                 [Start("process", m, u, "normal", "add_get")
                     EXCEPT !.actual_message = m, !.role = MessageRole, !.content = m,
                            !.ret = "context",
                            !.pre_model_set = ModelSetBefore(t, u),
                            !.force_model = NormalForceModel(ModelSetBefore(t, u))]]
    /\ UNCHANGED << config, conversations, heap, handlers, clock, appended >>

GetConversationAlwaysNew(user_id) ==
    [ref |-> NewRef,
     conversations |-> (user_id :> NewRef) @@ conversations,
     heap |-> (NewRef :> <<>>) @@ heap]

\* _get_conversation: the user's list, created and stored when there is none
GetConversation(user_id) ==
    IF user_id \in DOMAIN conversations
    THEN [ref |-> conversations[user_id], conversations |-> conversations, heap |-> heap]
    ELSE [ref |-> NewRef,
          conversations |-> (user_id :> NewRef) @@ conversations,
          heap |-> (NewRef :> <<>>) @@ heap]

\* _add_to_history: history = self._get_conversation(user_id)
AddGet(t) ==
    LET c == th[t]
        got == GetConversation(c.user_id) IN
    /\ c.pc = "add_get"
    /\ conversations' = got.conversations
    /\ th' = [th EXCEPT ![t] = [c EXCEPT !.pc = "add_append", !.history = got.ref]]
    /\ heap' = Live(got.heap, conversations', th')
    /\ UNCHANGED << config, handlers, clock, appended, generations >>

\* _add_to_history: history.append({...}), on the list object itself
AddAppend(t) ==
    LET c == th[t]
        e == Entry(c.role, c.content, clock) IN
    /\ c.pc = "add_append"
    /\ heap' = [heap EXCEPT ![c.history] = Append(@, e)]
    /\ clock' = clock + 1
    /\ appended' = [appended EXCEPT ![c.user_id] = Append(@, e)]
    /\ th' = [th EXCEPT ![t] = [c EXCEPT !.pc = "add_trim"]]
    /\ UNCHANGED << config, conversations, handlers, generations >>

\* _add_to_history: "Trim history if too long", a new list stored for the user
AddTrim(t) ==
    LET c == th[t] IN
    /\ c.pc = "add_trim"
    /\ th' = [th EXCEPT ![t] = [c EXCEPT !.pc = c.ret, !.history = 0]]
    /\ IF NeedsTrim(heap[c.history])
       THEN /\ conversations' = (c.user_id :> NewRef) @@ conversations
            /\ heap' = Live((NewRef :> Trimmed(heap[c.history])) @@ heap,
                            conversations', th')
       ELSE /\ conversations' = conversations
            /\ heap' = Live(heap, conversations', th')
    /\ UNCHANGED << config, handlers, clock, appended, generations >>

\* context = self._get_conversation(user_id)[:-1]; then router.generate is called
GetContext(t) ==
    LET c == th[t]
        got == GetConversation(c.user_id) IN
    /\ c.pc = "context"
    /\ conversations' = got.conversations
    /\ heap' = got.heap
    /\ th' = [th EXCEPT ![t] =
                 [c EXCEPT !.pc = "generate",
                           !.context = AllButLast(got.heap[got.ref]),
                           !.gen_pre = [u \in DOMAIN got.conversations |->
                                           got.heap[got.conversations[u]]]]]
    /\ UNCHANGED << config, handlers, clock, appended, generations >>

\* ----------------------------------------------------------- Router: actions
\* one adapter call, as the adapter sees it
AdapterCall(backend, message, context, ok, text) ==
    [ backend |-> backend, message |-> message, context |-> context, ok |-> ok,
      text |-> text ]

ContextEntryRenamed(backend, msg) ==
    IF backend = "gemini" /\ msg.role # "user" THEN [msg EXCEPT !.role = "model"] ELSE msg

\* a dict of the context once an adapter formatted its request: the adapters
\* read role and content and build dicts of their own (_format_history), or
\* put the dict itself into a list of their own (_format_messages)
ContextEntryAfter(backend, msg) == msg

\* the list objects once an adapter was called with the context: the context
\* is a copy of the stored list, but of the same dicts
HeapAfter(backend, context) ==
    [r \in DOMAIN heap |->
        [i \in 1..Len(heap[r]) |->
            IF \E k \in 1..Len(context) : context[k] = heap[r][i]
            THEN ContextEntryAfter(backend, heap[r][i])
            ELSE heap[r][i]]]

\* generate: the model is chosen
Select(t) ==
    LET c == th[t] IN
    /\ c.pc = "generate"
    /\ th' = [th EXCEPT ![t] =
                 [c EXCEPT !.pc = "call",
                           !.use_gemini =
                               UseGemini(c.force_model, c.actual_message, c.context)]]
    /\ UNCHANGED << config, conversations, heap, handlers, clock, appended, generations >>

\* generate: the chosen adapter answers with a text
CallOk(t, text) ==
    LET c == th[t]
        backend == ModelName(c.use_gemini) IN
    /\ c.pc = "call"
    /\ c.use_gemini => gemini
    /\ th' = [th EXCEPT ![t] =
                 [c EXCEPT !.pc = "generated",
                           !.calls = Append(@, AdapterCall(backend, c.actual_message,
                                                           c.context, TRUE, text)),
                           !.response = SuccessResponse(text, c.use_gemini)]]
    /\ heap' = HeapAfter(backend, c.context)
    /\ UNCHANGED << config, conversations, handlers, clock, appended, generations >>

\* generate: the chosen adapter raises; the fallback follows, or the failure response
CallFail(t) ==
    LET c == th[t]
        backend == ModelName(c.use_gemini) IN
    /\ c.pc = "call"
    /\ th' = [th EXCEPT ![t] =
                 [c EXCEPT !.pc = IF ShouldFallback(c.use_gemini)
                                  THEN "fallback" ELSE "generated",
                           !.calls = Append(@, AdapterCall(backend, c.actual_message,
                                                           c.context, FALSE, <<>>)),
                           !.error = ErrorOf(backend),
                           !.response = IF ShouldFallback(c.use_gemini) THEN @
                                        ELSE FailureResponse(backend, ErrorOf(backend),
                                                             "none")]]
    /\ heap' = HeapAfter(backend, c.context)
    /\ UNCHANGED << config, conversations, handlers, clock, appended, generations >>

\* generate: the fallback call of the local adapter answers with a text
FallbackOk(t, text) ==
    LET c == th[t] IN
    /\ c.pc = "fallback"
    /\ th' = [th EXCEPT ![t] =
                 [c EXCEPT !.pc = "generated",
                           !.calls = Append(@, AdapterCall("ollama", c.actual_message,
                                                           c.context, TRUE, text)),
                           !.response = FallbackResponse(text)]]
    /\ heap' = HeapAfter("ollama", c.context)
    /\ UNCHANGED << config, conversations, handlers, clock, appended, generations >>

\* generate: the fallback call raises too
FallbackFail(t) ==
    LET c == th[t] IN
    /\ c.pc = "fallback"
    /\ th' = [th EXCEPT ![t] =
                 [c EXCEPT !.pc = "generated",
                           !.calls = Append(@, AdapterCall("ollama", c.actual_message,
                                                           c.context, FALSE, <<>>)),
                           !.response = FailureResponse(ModelName(c.use_gemini), c.error,
                                                        ErrorOf("ollama"))]]
    /\ heap' = HeapAfter("ollama", c.context)
    /\ UNCHANGED << config, conversations, handlers, clock, appended, generations >>

\* ------------------------------------------------- Agent: after the generation
\* where a generating call goes once its history is up to date: process_message
\* notifies the handlers, _handle_model_command returns
AfterHistory(path) == IF path = "normal" THEN "notify" ELSE "return"

AddsResponseAlways(response) == TRUE

\* whether the response's text is added to the history
AddsResponse(response) == response.success

\* "Add response to history": if response["success"]
AfterGenerate(t) ==
    LET c == th[t] IN
    /\ c.pc = "generated"
    /\ th' = [th EXCEPT ![t] =
                 IF AddsResponse(c.response)
                 THEN [c EXCEPT !.pc = "add_get", !.role = "assistant",
                                !.content = c.response.text,
                                !.ret = AfterHistory(c.path)]
                 ELSE [c EXCEPT !.pc = AfterHistory(c.path)]]
    /\ UNCHANGED << config, conversations, heap, handlers, clock, appended, generations >>

\* one handler called by the "Notify handlers" loop
Notification(hook, user_id, message, response, raised) ==
    [ hook |-> hook, user_id |-> user_id, message |-> message,
      response |-> response, raised |-> raised ]

NextHandlerNoneAfterError(idx, raised) == IF raised THEN Len(handlers) ELSE idx + 1

\* "Notify handlers": the try/except is inside the loop, so the loop goes on
\* to the next handler whether or not this one raised
NextHandler(idx, raised) == idx + 1

\* "Notify handlers": the next handler is awaited; what it raises is logged
InvokeHandler(t, raised) ==
    LET c == th[t] IN
    /\ c.pc = "notify"
    /\ c.idx < Len(handlers)
    /\ th' = [th EXCEPT ![t] =
                 [c EXCEPT !.idx = NextHandler(@, raised),
                           !.notified = Append(@, Notification(handlers[c.idx + 1],
                                                   c.user_id, c.message, c.response,
                                                   raised))]]
    /\ UNCHANGED << config, conversations, heap, handlers, clock, appended, generations >>

\* "Notify handlers": the loop is over
NotifyDone(t) ==
    LET c == th[t] IN
    /\ c.pc = "notify"
    /\ c.idx >= Len(handlers)
    /\ th' = [th EXCEPT ![t] = [c EXCEPT !.pc = "return"]]
    /\ UNCHANGED << config, conversations, heap, handlers, clock, appended, generations >>

\* history: what the call that returns leaves for ModelSetBefore
ModelSetBy(c) ==
    IF c.op = "process" /\ c.path = "model" /\ ModelCommand(c.message).kind = "model_set"
    THEN [user_id |-> c.user_id, model |-> ModelCommand(c.message).model]
    ELSE NoModelSet

\* the call returns its response
Return(t) ==
    /\ th[t].pc = "return"
    /\ th' = [th EXCEPT ![t] = [Idle EXCEPT !.model_set = ModelSetBy(th[t])]]
    /\ UNCHANGED << config, conversations, heap, handlers, clock, appended, generations >>

\* ------------------------------------------------------------ specification
StepOf(t, requests) ==
    \/ \E r \in requests :
          \/ ProcessClear(t, r[1], r[2])
          \/ ProcessStatus(t, r[1], r[2])
          \/ ProcessModelAnswer(t, r[1], r[2])
          \/ ProcessModelForced(t, r[1], r[2])
          \/ ProcessNormal(t, r[1], r[2])
    \/ \E u \in Users : ApiClear(t, u)
    \/ ClearHistory(t)
    \/ AddGet(t)
    \/ AddAppend(t)
    \/ AddTrim(t)
    \/ GetContext(t)
    \/ Select(t)
    \/ \E text \in Replies(ModelName(th[t].use_gemini)) : CallOk(t, text)
    \/ CallFail(t)
    \/ \E text \in Replies("ollama") : FallbackOk(t, text)
    \/ FallbackFail(t)
    \/ AfterGenerate(t)
    \/ NotifyDone(t)
    \/ Return(t)

\* a step of thread t, with every request
Step(t) == StepOf(t, Requests)

\* the calls run one after another, in one request thread; no handler is
\* registered (on_message has no caller in the repository)
Next == \E t \in SeqThreads : Step(t)

Spec == Init /\ [][Next]_vars

\* the requests of concurrent HTTP request threads: one user's, a plain
\* message or /clear
ConcRequests == {"u1"} \X {MsgHi, MsgClear}

\* a step of one request thread among the concurrent ones; the local adapter
\* answers or raises
ConcStep(t) ==
    \/ \E r \in ConcRequests :
          \/ ProcessClear(t, r[1], r[2])
          \/ ProcessNormal(t, r[1], r[2])
    \/ \E r \in ConcRequests : ApiClear(t, r[1])
    \/ ClearHistory(t)
    \/ AddGet(t)
    \/ AddAppend(t)
    \/ AddTrim(t)
    \/ GetContext(t)
    \/ Select(t)
    \/ \E text \in Replies(ModelName(th[t].use_gemini)) : CallOk(t, text)
    \/ CallFail(t)
    \/ AfterGenerate(t)
    \/ NotifyDone(t)
    \/ Return(t)

\* Flask serves each request in a thread of its own (app.run, threaded by
\* default); the threads share the one Agent and nothing locks it, so their
\* steps interleave
NextConc == \E t \in Threads : ConcStep(t)

\* a positive max_history, and no cloud adapter
InitConc == Init /\ max_history >= 1 /\ ~gemini

SpecConc == InitConc /\ [][NextConc]_vars

\* ------------------------------------------- the scorer on its own (router.py)
\* the words of the messages scored: plain ones, keywords, technical
\* indicators and the words of the patterns
ScoreWords ==
    {"hi", "Analyze", "complexity", "why?", "def", "how", "work", "generate", "code"}

RECURSIVE WordSeqs(_)
WordSeqs(n) ==
    IF n = 0 THEN {<<>>}
    ELSE WordSeqs(n - 1)
         \cup {Append(ws, w) : ws \in {x \in WordSeqs(n - 1) : Len(x) = n - 1},
                               w \in ScoreWords}

\* the messages scored: up to MaxWords words, a space between two of them
ScoreMessages == {Join(ws) : ws \in WordSeqs(MaxWords)}

\* the contexts scored: none, and one, two or three entries of 1 to 21 words
ScoreContexts ==
    { <<>>,
      <<Entry("user", MsgHi, 0)>>,
      <<Entry("assistant", ReplyLong, 0)>>,
      <<Entry("user", MsgHi, 0), Entry("assistant", ReplyLong, 1)>>,
      <<Entry("assistant", ReplyLong, 0), Entry("user", MsgHi, 1),
        Entry("assistant", ReplyLong, 2)>> }

\* _calculate_complexity is about to be called with a message and a context
InitScore ==
    /\ max_history = MaxHistory
    /\ gemini = TRUE
    /\ complexity_threshold \in Thresholds
    /\ conversations = <<>>
    /\ heap = <<>>
    /\ handlers = <<>>
    /\ clock = 0
    /\ appended = [u \in Users |-> <<>>]
    /\ generations = 0
    /\ \E m \in ScoreMessages, context \in ScoreContexts :
          th = [t \in Threads |->
                   IF t \in SeqThreads
                   THEN [Idle EXCEPT !.pc = "score", !.actual_message = m,
                                     !.context = context]
                   ELSE Idle]

\* complexity = self._calculate_complexity(message, context)
CalculateComplexity(t) ==
    /\ th[t].pc = "score"
    /\ th' = [th EXCEPT ![t] =
                 [th[t] EXCEPT !.pc = "scored",
                               !.complexity =
                                   calculate_complexity(th[t].actual_message,
                                                        th[t].context)]]
    /\ UNCHANGED << config, conversations, heap, handlers, clock, appended, generations >>

NextScore == \E t \in SeqThreads : CalculateComplexity(t)

SpecScore == InitScore /\ [][NextScore]_vars

\* ------------------------------ the local adapter's request (ollama_client.py)
\* OllamaClient.generate is about to format a message and a context
InitFormat ==
    /\ max_history = MaxHistory
    /\ gemini = TRUE
    /\ complexity_threshold \in Thresholds
    /\ conversations = <<>>
    /\ heap = <<>>
    /\ handlers = <<>>
    /\ clock = 0
    /\ appended = [u \in Users |-> <<>>]
    /\ generations = 0
    /\ \E m \in ScoreMessages, context \in ScoreContexts :
          th = [t \in Threads |->
                   IF t \in SeqThreads
                   THEN [Idle EXCEPT !.pc = "format", !.actual_message = m,
                                     !.context = context]
                   ELSE Idle]

\* messages = self._format_messages(message, context)
FormatMessages(t) ==
    /\ th[t].pc = "format"
    /\ th' = [th EXCEPT ![t] =
                 [th[t] EXCEPT !.pc = "formatted",
                               !.messages = format_messages(th[t].actual_message,
                                                            th[t].context)]]
    /\ UNCHANGED << config, conversations, heap, handlers, clock, appended, generations >>

NextFormat == \E t \in SeqThreads : FormatMessages(t)

SpecFormat == InitFormat /\ [][NextFormat]_vars

\* on_message: a handler is registered, between two calls
OnMessage(h) ==
    /\ \A t \in Threads : th[t].pc = "idle"
    /\ Len(handlers) < MaxHandlers
    /\ handlers' = Append(handlers, h)
    /\ UNCHANGED << config, conversations, heap, clock, appended, generations, th >>

\* the same calls of one user, with handlers registered and notified
NextHooks ==
    \/ \E t \in SeqThreads : StepOf(t, HookRequests)
    \/ \E h \in Hooks : OnMessage(h)
    \/ \E t \in SeqThreads, raised \in BOOLEAN : InvokeHandler(t, raised)

SpecHooks == Init /\ [][NextHooks]_vars

\* ------------------------------------------------------------------ claims
\* the last n entries of s (all of s when it has fewer)
LastN(s, n) == SubSeq(s, (IF Len(s) > n THEN Len(s) - n + 1 ELSE 1), Len(s))

\* a thread is between the append and the trim of _add_to_history for user u
Trimming(u) == \E t \in Threads : th[t].pc = "add_trim" /\ th[t].user_id = u

\* the generating call of thread t is past ModelRouter.generate
Generated(t) == th[t].calls # <<>> /\ th[t].pc # "fallback"

\* C1: with max_history >= 1, whenever no append is under way for a user, the
\* stored history has at most max_history entries and is the most recent
\* max_history entries appended (since the conversation was created), in the
\* order they were appended: entries leave from the front only.
C1_HistoryIsRecentSuffix ==
    max_history >= 1 =>
        \A u \in DOMAIN conversations :
            ~Trimming(u) =>
                /\ Len(Histories[u]) <= max_history
                /\ Histories[u] = LastN(appended[u], max_history)

\* C1 witness: three entries were appended for a user under max_history = 2
C1_Witness ==
    /\ max_history = 2
    /\ \E u \in DOMAIN conversations :
          /\ Len(appended[u]) = 3
          /\ ~Trimming(u)
          /\ Len(Histories[u]) = 2

\* C2: once generate is over with a cloud call that failed first, the call log
\* is that call and one local call with the same message and context; when the
\* local call answered, the response has success, model "ollama", fallback set
\* and the local adapter's text.
C2_FallbackToLocal ==
    \A t \in Threads :
        LET c == th[t] IN
        (Generated(t) /\ c.calls[1].backend = "gemini" /\ ~c.calls[1].ok) =>
            /\ Len(c.calls) = 2
            /\ c.calls[2].backend = "ollama"
            /\ c.calls[2].message = c.calls[1].message
            /\ c.calls[2].context = c.calls[1].context
            /\ c.calls[2].ok =>
                  /\ c.response.success
                  /\ c.response.model = "ollama"
                  /\ "fallback" \in DOMAIN c.response
                  /\ c.response.fallback
                  /\ c.response.text = c.calls[2].text

\* C2 witness: a cloud call failed and the local call after it answered
C2_Witness ==
    \E t \in Threads :
        /\ Generated(t)
        /\ Len(th[t].calls) = 2
        /\ th[t].calls[1].backend = "gemini" /\ ~th[t].calls[1].ok
        /\ th[t].calls[2].ok
        /\ th[t].context # <<>>

\* C3: the adapter generate calls first is the one its decision table gives:
\* the cloud one for force = cloud with the cloud adapter configured, the local
\* one for force = local, and with no force the cloud one exactly when it is
\* configured and the score is at least complexity_threshold.
C3_DecisionTable ==
    \A t \in Threads :
        LET c == th[t] IN
        c.calls # <<>> =>
            /\ (c.force_model = "gemini" /\ gemini) => c.calls[1].backend = "gemini"
            /\ c.force_model = "ollama" => c.calls[1].backend = "ollama"
            /\ c.force_model = "none" =>
                  (c.calls[1].backend = "gemini"
                      <=> (gemini /\ calculate_complexity(c.actual_message, c.context)
                                       >= complexity_threshold))
            /\ c.calls[1].backend \in {"gemini", "ollama"}

\* C3 witness: with no force and a score equal to the threshold, the cloud
\* adapter was called first
C3_Witness ==
    \E t \in Threads :
        /\ th[t].calls # <<>>
        /\ th[t].force_model = "none"
        /\ calculate_complexity(th[t].actual_message, th[t].context)
              = complexity_threshold
        /\ th[t].calls[1].backend = "gemini"

\* the backends of a call log, in the order of the calls
Backends(calls) == [i \in 1..Len(calls) |-> calls[i].backend]

\* C4: the adapter calls of one generate are the local one alone, the cloud one
\* alone, or the cloud one and then the local one, this only after the cloud
\* call failed.
C4_CallSequences ==
    \A t \in Threads :
        LET c == th[t] IN
        c.calls # <<>> =>
            /\ Backends(c.calls) \in {<<"ollama">>, <<"gemini">>, <<"gemini", "ollama">>}
            /\ Len(c.calls) = 2 => ~c.calls[1].ok

\* C4 witness: a generate is over with the call sequence cloud, local
C4_Witness ==
    \E t \in Threads :
        /\ th[t].pc = "return"
        /\ Backends(th[t].calls) = <<"gemini", "ollama">>

\* C5: once generate is over with a local call that failed first, that call is
\* the only one, and the response (generate returns one, it does not raise) has
\* success false, model "ollama", the apology text and the error.
C5_LocalFailureIsFinal ==
    \A t \in Threads :
        LET c == th[t] IN
        (c.calls # <<>> /\ c.calls[1].backend = "ollama" /\ ~c.calls[1].ok) =>
            /\ Len(c.calls) = 1
            /\ c.pc # "fallback"
            /\ c.response =
                  [ text |-> ApologyText, model |-> "ollama", success |-> FALSE,
                    error |-> "ollama_error" ]

\* C5 witness: the local call failed though the cloud adapter is configured
C5_Witness ==
    \E t \in Threads :
        /\ th[t].pc = "generated"
        /\ gemini
        /\ Len(th[t].calls) = 1
        /\ th[t].calls[1].backend = "ollama" /\ ~th[t].calls[1].ok

\* C6: once generate is over with the cloud call and the local call after it
\* both failed, the response has success false, the error of the cloud call
\* and the model first chosen, "gemini".
C6_BothFailed ==
    \A t \in Threads :
        LET c == th[t] IN
        ( /\ Generated(t)
          /\ Len(c.calls) = 2
          /\ c.calls[1].backend = "gemini" /\ ~c.calls[1].ok
          /\ ~c.calls[2].ok ) =>
            /\ ~c.response.success
            /\ c.response.error = "gemini_error"
            /\ c.response.error # ErrorOf(c.calls[2].backend)
            /\ c.response.model = "gemini"
            /\ c.response.text = ApologyText

\* C6 witness: both calls failed
C6_Witness ==
    \E t \in Threads :
        /\ Generated(t)
        /\ Len(th[t].calls) = 2
        /\ ~th[t].calls[1].ok /\ ~th[t].calls[2].ok

\* C7: without the cloud adapter (ModelRouter.gemini is None) no call chooses
\* it: use_gemini stays false and every adapter call is a local one, whatever
\* the message, the score and the force.
C7_LocalOnlyWithoutCloud ==
    ~gemini =>
        \A t \in Threads :
            /\ ~th[t].use_gemini
            /\ \A i \in 1..Len(th[t].calls) : th[t].calls[i].backend = "ollama"

\* C7 witness: the cloud model was forced without the cloud adapter, and the
\* local adapter was called
C7_Witness ==
    \E t \in Threads :
        /\ ~gemini
        /\ th[t].force_model = "gemini"
        /\ th[t].calls # <<>>
        /\ th[t].calls[1].backend = "ollama"

\* the entry a generating call appends for the user's message
UserEntry(t) == Entry("user", th[t].actual_message, th[t].pre_clock)

Last(s) == s[Len(s)]

\* C8: while a call is in ModelRouter.generate, its user's entries are those
\* from before the call and then the message, as a user entry, which is the
\* last of the stored history; once the call is past the history update, they
\* are followed by the response's text as an assistant entry exactly when the
\* response has success, and after a failure the user entry is still the last
\* of the stored history.
C8_UserBeforeAssistantAfter ==
    \A t \in Threads :
        LET c == th[t]
            u == c.user_id IN
        /\ c.pc \in {"generate", "call", "fallback", "generated"} =>
              /\ appended[u] = Append(c.pre_appended, UserEntry(t))
              /\ u \in DOMAIN conversations
              /\ Histories[u] # <<>>
              /\ Last(Histories[u]) = UserEntry(t)
        /\ (c.pc \in {"notify", "return"} /\ c.calls # <<>>) =>
              IF c.response.success
              THEN appended[u] =
                       c.pre_appended
                       \o << UserEntry(t),
                             Entry("assistant", c.response.text, c.pre_clock + 1) >>
              ELSE /\ appended[u] = Append(c.pre_appended, UserEntry(t))
                   /\ Last(Histories[u]) = UserEntry(t)

\* C8 witness: a "/model <name> <text>" call returns after its generation failed
C8_Witness ==
    \E t \in Threads :
        /\ th[t].pc = "return"
        /\ th[t].path = "model"
        /\ th[t].calls # <<>>
        /\ ~th[t].response.success
        /\ th[t].pre_appended # <<>>

\* a call of clear_history is over: process_message's for "/clear", or the
\* HTTP handler's
ClearReturned(t) ==
    th[t].pc = "return" /\ (th[t].path = "clear" \/ th[t].op = "clear")

\* C9: once clear_history(user_id) is over, _get_conversation(user_id) gives an
\* empty list, whatever was stored before; and for a user who had no
\* conversation everything stored is as it was.
C9_ClearThenEmpty ==
    \A t \in Threads :
        LET c == th[t]
            got == GetConversation(c.user_id) IN
        ClearReturned(t) =>
            /\ got.heap[got.ref] = <<>>
            /\ c.user_id \notin DOMAIN c.pre => Histories = c.pre

\* C9 witness: clear_history is over for a user who had two entries stored
C9_Witness ==
    \E t \in Threads :
        /\ ClearReturned(t)
        /\ th[t].user_id \in DOMAIN th[t].pre
        /\ Len(th[t].pre[th[t].user_id]) = 2

\* C10: a process_message call whose message is "/clear" once stripped and
\* lower-cased appends nothing and calls no adapter, and when it returns the
\* user has no conversation, the other users' are as before, and the response
\* is the system one with success.
C10_ClearCommand ==
    \A t \in Threads :
        LET c == th[t] IN
        (c.op = "process" /\ Lower(Strip(c.message)) = <<"/clear">>) =>
            /\ c.pc \in {"clear_history", "return"}
            /\ c.calls = <<>>
            /\ clock = c.pre_clock
            /\ appended[c.user_id] \in {c.pre_appended, <<>>}
            /\ c.pc = "return" =>
                  /\ c.user_id \notin DOMAIN conversations
                  /\ c.response =
                        [text |-> ClearedText, model |-> "system", success |-> TRUE]
                  /\ \A u \in DOMAIN c.pre \ {c.user_id} :
                        u \in DOMAIN conversations /\ Histories[u] = c.pre[u]

\* C10 witness: " /Clear<tab>" was handled for a user with a stored history
\* while another user has one too
C10_Witness ==
    \E t \in Threads :
        /\ th[t].op = "process"
        /\ th[t].pc = "return"
        /\ th[t].message = MsgClear
        /\ DOMAIN th[t].pre = Users
        /\ th[t].pre[th[t].user_id] # <<>>
        /\ th[t].response.model = "system"

\* the words of a message, as _handle_model_command splits it
Words(message) == Split(Strip(message))

\* a process_message call whose message is "/model <name>" with a name that is
\* no backend's, or with a backend's name and no text after it
ModelCommandWithoutGeneration(t) ==
    LET c == th[t] IN
    /\ c.op = "process"
    /\ IsModelCommand(c.message)
    /\ Len(Words(c.message)) >= 2
    /\ \/ LowerTok(Words(c.message)[2]) \notin {"ollama", "gemini"}
       \/ Len(Words(c.message)) = 2

\* C11: a process_message call whose message is "/model <name>" with an
\* unknown name, or with a known name and no text, goes straight to its return
\* with a system response with success (it raises nothing), every stored
\* conversation is as before the call, nothing is appended and no adapter is
\* called.
C11_ModelCommandAnswered ==
    \A t \in Threads :
        LET c == th[t] IN
        ModelCommandWithoutGeneration(t) =>
            /\ c.pc = "return"
            /\ c.response.model = "system"
            /\ c.response.success
            /\ c.response.text \in {InvalidModelText, ModelSetText("gemini"),
                                    ModelSetText("ollama")}
            /\ Histories = c.pre
            /\ clock = c.pre_clock
            /\ appended[c.user_id] = c.pre_appended
            /\ c.calls = <<>>

\* C11 witness: "/model gpt hi" was answered for a user with a stored history
C11_Witness ==
    \E t \in Threads :
        /\ ModelCommandWithoutGeneration(t)
        /\ th[t].message = MsgModelBad
        /\ th[t].pc = "return"
        /\ th[t].user_id \in DOMAIN th[t].pre
        /\ th[t].pre[th[t].user_id] # <<>>

\* a process_message call whose message is "/model <name> <text>" with a
\* backend's name
ForcedModelCall(t) ==
    LET c == th[t] IN
    /\ c.op = "process"
    /\ IsModelCommand(c.message)
    /\ Len(Words(c.message)) > 2
    /\ LowerTok(Words(c.message)[2]) \in {"ollama", "gemini"}

\* the text after "/model <name>": the words from the third on, joined by spaces
ParsedText(message) == Join(SubSeq(Words(message), 3, Len(Words(message))))

\* C12: while a "/model <name> <text>" call with a backend's name is in
\* ModelRouter.generate, one entry was appended for the user since the call
\* began, a user entry whose content is the text alone; it is the last of the
\* stored history, and the context given to generate is the stored history
\* without it; generate was given the text as message and the name as
\* force_model, and every adapter call has that message and that context.
C12_ForcedModelCall ==
    \A t \in Threads :
        LET c == th[t]
            u == c.user_id
            e == Entry("user", ParsedText(c.message), c.pre_clock) IN
        (ForcedModelCall(t) /\ c.pc \in {"generate", "call", "fallback", "generated"}) =>
            /\ appended[u] = Append(c.pre_appended, e)
            /\ u \in DOMAIN conversations
            /\ Histories[u] = Append(c.context, e)
            /\ c.actual_message = ParsedText(c.message)
            /\ c.force_model = LowerTok(Words(c.message)[2])
            /\ \A i \in 1..Len(c.calls) :
                  /\ c.calls[i].message = ParsedText(c.message)
                  /\ c.calls[i].context = c.context

\* C12 witness: " /Model Gemini<tab>hi  why?" is in generate with the text
\* "hi why?", a context that is not empty, and the cloud adapter called
C12_Witness ==
    \E t \in Threads :
        /\ ForcedModelCall(t)
        /\ th[t].message = MsgModelGemini
        /\ th[t].pc = "generated"
        /\ th[t].actual_message = <<"hi", " ", "why?">>
        /\ th[t].context # <<>>
        /\ th[t].force_model = "gemini"
        /\ th[t].calls[1].backend = "gemini"

\* the notifications of thread t's call are those of the first n registered
\* handlers, in the order of registration, each with the call's user_id and
\* message and the response the call has
NotifiedFirst(t, n) ==
    /\ Len(th[t].notified) = n
    /\ \A i \in 1..n :
          /\ th[t].notified[i].hook = handlers[i]
          /\ th[t].notified[i].user_id = th[t].user_id
          /\ th[t].notified[i].message = th[t].message
          /\ th[t].notified[i].response = th[t].response

\* from the return of ModelRouter.generate on, a step leaves the call's
\* response as it is
ResponseKept ==
    \A t \in Threads :
        (th[t].calls # <<>> /\ th[t].pc \notin {"call", "fallback", "return"})
            => th'[t].response = th[t].response

\* C13: in the "Notify handlers" loop the handlers called so far are the first
\* registered ones, in the order of registration, each with (user_id, message,
\* response), whichever of them raised; when the loop is over every registered
\* handler was called; and the response generate returned is the one the call
\* returns, unchanged by the loop.
C13_EveryHookInOrder ==
    /\ [](\A t \in Threads :
            /\ th[t].pc = "notify" =>
                  th[t].idx <= Len(handlers) /\ NotifiedFirst(t, th[t].idx)
            /\ (th[t].pc = "return" /\ th[t].path = "normal") =>
                  NotifiedFirst(t, Len(handlers)))
    /\ [][ResponseKept]_vars

\* C13 witness: a call returns with two handlers called, of which the first
\* raised
C13_Witness ==
    \E t \in Threads :
        /\ th[t].pc = "return"
        /\ Len(th[t].notified) = 2
        /\ th[t].notified[1].raised
        /\ ~th[t].notified[2].raised
        /\ th[t].notified[1].hook # th[t].notified[2].hook

\* C14: a process_message call that went through ModelRouter.generate, on the
\* normal path or as "/model <name> <text>", with a response of success or
\* not, has called every registered handler once when it returns, and calls
\* them only after its history update, in the "Notify handlers" loop.
C14_HooksAfterEveryGeneration ==
    \A t \in Threads :
        LET c == th[t] IN
        (c.op = "process" /\ c.calls # <<>>) =>
            /\ c.pc = "return" => NotifiedFirst(t, Len(handlers))
            /\ c.notified # <<>> => c.pc \in {"notify", "return"}

\* a process_message call handled as a command that generates nothing:
\* "/clear", "/status", or "/model <name>" rejected or without a text
CommandCall(t) ==
    /\ th[t].op = "process"
    /\ \/ IsClearCommand(th[t].message)
       \/ IsStatusCommand(th[t].message)
       \/ ModelCommandWithoutGeneration(t)

\* C15, as claimed: a process_message call handled as "/clear", "/status" or
\* a rejected or text-less "/model" has called every registered handler when
\* it returns.
C15_HooksAfterCommands ==
    \A t \in Threads :
        (CommandCall(t) /\ th[t].pc = "return") => NotifiedFirst(t, Len(handlers))

\* C15, amended: a process_message call handled as "/clear", "/status" or a
\* rejected or text-less "/model" never enters the "Notify handlers" loop: it
\* returns its system response with no handler called, whatever is registered.
C15_NoHooksAfterCommands ==
    \A t \in Threads :
        CommandCall(t) =>
            /\ th[t].pc \in {"clear_history", "return"}
            /\ th[t].notified = <<>>
            /\ th[t].pc = "return" =>
                  th[t].response.model = "system" /\ th[t].response.success

\* C15 witness: "/STATUS " returns while two handlers are registered
C15_Witness ==
    \E t \in Threads :
        /\ CommandCall(t)
        /\ th[t].message = MsgStatus
        /\ th[t].pc = "return"
        /\ Len(handlers) = 2
        /\ th[t].notified = <<>>

\* the entries of a sequence
Range(s) == {s[i] : i \in 1..Len(s)}

\* C16: the calls of concurrent request threads for one user leave the stored
\* history as some serial order of their appends and clears would, one that
\* keeps the order of the calls that do not overlap. Stated by what every
\* such order gives: (a) once clear_history(user_id) has returned, no entry
\* whose _add_to_history had returned before that clear was called is stored
\* for the user; (b) outside _add_to_history the stored history has at most
\* max_history entries; (c) the stored entries are in the order they were
\* appended.
C16_SerializedPerUser ==
    \A u \in DOMAIN conversations :
        /\ \A t \in Threads :
              (ClearReturned(t) /\ th[t].user_id = u) =>
                  Range(Histories[u]) \cap Range(th[t].pre_returned) = {}
        /\ ~Trimming(u) => Len(Histories[u]) <= max_history
        /\ \A i, j \in 1..Len(Histories[u]) :
              i < j => Histories[u][i].timestamp < Histories[u][j].timestamp

\* C17: from the call of ModelRouter.generate to its return, whichever
\* adapters it calls and whether they answer or raise, every user's stored
\* history and the set of users who have one are what they were when generate
\* was called.
C17_RouterLeavesConversations ==
    \A t \in Threads :
        th[t].pc \in {"generate", "call", "fallback", "generated"} =>
            Histories = th[t].gen_pre

\* C17 witness: generate is over after the cloud adapter was called with a
\* context that holds an assistant entry, and the local one after it
C17_Witness ==
    \E t \in Threads :
        /\ th[t].pc = "generated"
        /\ Backends(th[t].calls) = <<"gemini", "ollama">>
        /\ \E k \in 1..Len(th[t].context) : th[t].context[k].role = "assistant"
        /\ th[t].gen_pre # <<>>

\* C18: for every message and context, the score _calculate_complexity
\* returns is a natural number at least the number of whitespace-separated
\* words of the message, and at least the score of the message without a
\* context: the other terms are only added.
C18_ScoreAtLeastWordCount ==
    \A t \in Threads :
        th[t].pc = "scored" =>
            /\ th[t].complexity \in Nat
            /\ th[t].complexity >= Len(Split(th[t].actual_message))
            /\ th[t].complexity >= calculate_complexity(th[t].actual_message, <<>>)

\* C18 witness: "def Analyze complexity" was scored with a context of 21
\* words: 3 words, two keywords, the technical bonus and 2 for the context
C18_Witness ==
    \E t \in Threads :
        /\ th[t].pc = "scored"
        /\ th[t].actual_message = <<"def", " ", "Analyze", " ", "complexity">>
        /\ Len(th[t].context) = 3
        /\ th[t].complexity = 3 + 400 + 150 + 2

\* thread t's step is a call of _get_conversation: the one of _add_to_history
\* or the one that fetches the context
GotConversation(t) ==
    \/ th[t].pc = "add_get" /\ th'[t].pc = "add_append"
    \/ th[t].pc = "context" /\ th'[t].pc = "generate"

\* C19, as claimed: a call of _get_conversation leaves the conversations
\* mapping as it is: the users who have a conversation and their histories
\* are the same after it, also for a user who had none.
C19_AccessorReadOnly ==
    [][\A t \in Threads :
          GotConversation(t) =>
              /\ DOMAIN conversations' = DOMAIN conversations
              /\ Histories' = Histories]_vars

\* C19, amended: a call of _get_conversation for a user who has a
\* conversation leaves the mapping and every history as they are and gives
\* the stored list; for a user who has none it stores a new empty list for
\* that user, so that one more user has a conversation, leaves the other
\* users' histories as they are, and gives that list.
C19_GetOrCreate ==
    [][\A t \in Threads :
          GotConversation(t) =>
              LET u == th[t].user_id IN
              /\ IF u \in DOMAIN conversations
                 THEN conversations' = conversations /\ Histories' = Histories
                 ELSE /\ DOMAIN conversations' = DOMAIN conversations \cup {u}
                      /\ Cardinality(DOMAIN conversations')
                            = Cardinality(DOMAIN conversations) + 1
                      /\ Histories'[u] = <<>>
                      /\ \A v \in DOMAIN conversations : Histories'[v] = Histories[v]
              /\ th'[t].pc = "add_append" => th'[t].history = conversations'[u]
              /\ th'[t].pc = "generate" => th'[t].context = AllButLast(Histories'[u])]_vars

\* C19 witness: _get_conversation was called for a user without a
\* conversation while another user has one, and an empty one is now stored
C19_Witness ==
    \E t \in Threads :
        /\ th[t].pc = "add_append"
        /\ th[t].role = "user"
        /\ th[t].user_id \notin DOMAIN th[t].pre
        /\ DOMAIN th[t].pre # {}
        /\ Histories[th[t].user_id] = <<>>

\* C20: a process_message call whose message is "/status" once stripped and
\* lower-cased is at its return at once, with a system response with success
\* whose text counts the conversations there were; every stored conversation
\* is as before the call, none is created or removed, nothing is appended and
\* no adapter is called.
C20_StatusCommand ==
    \A t \in Threads :
        LET c == th[t] IN
        (c.op = "process" /\ Lower(Strip(c.message)) = <<"/status">>) =>
            /\ c.pc = "return"
            /\ c.response.model = "system"
            /\ c.response.success
            /\ c.response.text[Len(c.response.text)]
                  = Decimal(Cardinality(DOMAIN c.pre))
            /\ Histories = c.pre
            /\ clock = c.pre_clock
            /\ appended[c.user_id] = c.pre_appended
            /\ c.calls = <<>>
            /\ c.use_gemini = FALSE /\ c.context = <<>>

\* C20 witness: "/STATUS " was answered for a user without a conversation
\* while another user has one
C20_Witness ==
    \E t \in Threads :
        /\ th[t].op = "process"
        /\ th[t].message = MsgStatus
        /\ th[t].pc = "return"
        /\ th[t].user_id \notin DOMAIN th[t].pre
        /\ Cardinality(DOMAIN th[t].pre) = 1

\* the stored history of a user as it was when thread t's call began
PreHistory(t) ==
    IF th[t].user_id \in DOMAIN th[t].pre THEN th[t].pre[th[t].user_id] ELSE <<>>

\* C21: while a call of the normal path is in ModelRouter.generate (the calls
\* run one after another), the context it gave is the user's stored history
\* without its last entry; the entry of the current message is not in it; it
\* has at most max_history - 1 entries (none for max_history = 0); and it is
\* the most recent max_history - 1 entries of the history from before the call.
C21_ContextIsRecentHistory ==
    \A t \in Threads :
        LET c == th[t]
            u == c.user_id
            n == IF max_history >= 1 THEN max_history - 1 ELSE 0 IN
        ( /\ c.op = "process"
          /\ c.path = "normal"
          /\ c.pc \in {"generate", "call", "fallback", "generated"} ) =>
            /\ c.context = AllButLast(Histories[u])
            /\ UserEntry(t) \notin Range(c.context)
            /\ Len(c.context) <= n
            /\ c.context = LastN(PreHistory(t), n)

\* C22: with max_history = 0, whenever no append is under way for a user, the
\* user's stored history has no entry: its length does not exceed max_history.
C22_BoundAtZero ==
    max_history = 0 =>
        \A u \in DOMAIN conversations :
            ~Trimming(u) =>
                Len(Histories[u]) = 0 /\ Len(Histories[u]) <= max_history

\* C23: the list _format_messages gives for a message and a context has
\* len(context) + 2 entries: first the system prompt, the only system entry;
\* then the entries of the context, each as it is and in the context's order;
\* last the message as a user entry.
C23_RequestShape ==
    \A t \in Threads :
        LET c == th[t]
            n == Len(c.context) IN
        c.pc = "formatted" =>
            /\ Len(c.messages) = n + 2
            /\ c.messages[1] = [role |-> "system", content |-> SystemPrompt]
            /\ \A i \in 2..(n + 2) : c.messages[i].role # "system"
            /\ \A i \in 1..n : c.messages[i + 1] = c.context[i]
            /\ c.messages[n + 2] = [role |-> "user", content |-> c.actual_message]

\* C23 witness: a message of three words was formatted with a context of
\* three entries
C23_Witness ==
    \E t \in Threads :
        /\ th[t].pc = "formatted"
        /\ Len(th[t].context) = 3
        /\ Len(Split(th[t].actual_message)) = 3
        /\ Len(th[t].messages) = 5

\* C24: from the beginning of a process_message or clear_history call for a
\* user to its return, on every path and whatever the adapters do, every
\* other user has a conversation exactly if they had one when the call began,
\* with the same stored history.
C24_UsersIsolated ==
    \A t \in Threads :
        th[t].pc # "idle" =>
            \A v \in Users \ {th[t].user_id} :
                /\ v \in DOMAIN conversations <=> v \in DOMAIN th[t].pre
                /\ v \in DOMAIN th[t].pre => Histories[v] = th[t].pre[v]

\* C24 witness: a generating call of one user returns, with entries appended
\* for that user, while another user has a stored history
C24_Witness ==
    \E t \in Threads :
        /\ th[t].pc = "return"
        /\ th[t].calls # <<>>
        /\ appended[th[t].user_id] # th[t].pre_appended
        /\ \E v \in DOMAIN th[t].pre \ {th[t].user_id} : th[t].pre[v] # <<>>


\* thread t is in a process_message call of the normal path (no command)
NormalCall(t) ==
    /\ th[t].op = "process"
    /\ th[t].path = "normal"
    /\ th[t].pc # "idle"

\* C25: a "/model <name>" override does not persist: a call of the normal path
\* is routed with no force_model, whatever the user's call before was, also
\* when that call was "/model <name>" without text, answered "Model set to
\* <name>": the first adapter called is the cloud one exactly when it is
\* available and the score reaches the threshold.
C25_OverrideNotKept ==
    \A t \in Threads :
        LET c == th[t] IN
        NormalCall(t) =>
            /\ c.force_model = "none"
            /\ c.actual_message = c.message
            /\ c.calls # <<>> =>
                  (c.calls[1].backend = "gemini"
                      <=> (gemini /\ calculate_complexity(c.message, c.context)
                                       >= complexity_threshold))

\* C25 witness: right after "/model Gemini", answered "Model set to gemini",
\* the same user's "hi" scores below the threshold and goes to the local
\* adapter although the cloud adapter is available
C25_Witness ==
    \E t \in Threads :
        /\ NormalCall(t)
        /\ th[t].pre_model_set = "gemini"
        /\ th[t].message = MsgHi
        /\ gemini
        /\ calculate_complexity(th[t].message, th[t].context) < complexity_threshold
        /\ th[t].calls # <<>>
        /\ th[t].calls[1].backend = "ollama"


\* no assistant entry of the sequence s is followed by another one
NoAssistantPair(s) ==
    \A i \in 1..(Len(s) - 1) :
        ~(s[i].role = "assistant" /\ s[i + 1].role = "assistant")

\* the roles of the entries of the sequence s
Roles(s) == [i \in 1..Len(s) |-> s[i].role]

\* C26: with the calls one after another, no stored history has two assistant
\* entries in a row, trimmed or not, and neither has what was appended for a
\* user; a call that generated has appended a user entry and then at most one
\* assistant entry.
C26_NoAssistantPair ==
    /\ \A u \in DOMAIN conversations : NoAssistantPair(Histories[u])
    /\ \A u \in Users : NoAssistantPair(appended[u])
    /\ \A t \in Threads :
          LET c == th[t]
              new == SubSeq(appended[c.user_id], Len(c.pre_appended) + 1,
                            Len(appended[c.user_id])) IN
          (c.pc \in {"notify", "return"} /\ c.calls # <<>>) =>
              Roles(new) \in {<<"user">>, <<"user", "assistant">>}

\* C26 witness: under max_history = 2 four entries were appended for a user,
\* the trimming dropped the first two, and an assistant entry is stored last
C26_Witness ==
    /\ max_history = 2
    /\ \E u \in DOMAIN conversations :
          /\ ~Trimming(u)
          /\ Roles(appended[u]) = <<"user", "assistant", "user", "assistant">>
          /\ Roles(Histories[u]) = <<"user", "assistant">>
          /\ Histories[u] = SubSeq(appended[u], 3, 4)

====
